---- MODULE Spec2Model ----
(***************************************************************************)
(* Shopify Integration API (src/main.py, src/schemas.py).                  *)
(*                                                                         *)
(* Two request handlers, connect_shopify and shopify_summary, run against  *)
(* a document store with two collections, "shopifyintegration" and         *)
(* "datasnapshot".  Every handler is a sequence of individually atomic     *)
(* store operations; handlers of different requests interleave between     *)
(* them.  Strings that normalize_domain works on are sequences of          *)
(* one-character strings, so that strip / replace / split / endswith are   *)
(* computed character by character.                                        *)
(***************************************************************************)
EXTENDS Naturals, Sequences, FiniteSets

VARIABLES
    dbAvail,   \* database.db is a handle (TRUE) or None (FALSE)
    integ,     \* collection "shopifyintegration", in insertion order
    snaps,     \* collection "datasnapshot", in insertion order
    pc,        \* position of each request handler
    loc,       \* local variables of each request handler
    resp,      \* HTTP response of each handler once it has returned
    overlap,   \* history: another request was in flight during this one
    nreq,      \* number of requests started so far
    nin,       \* normalize_domain: the input string
    nout,      \* normalize_domain(nin), once computed
    nout2      \* normalize_domain(normalize_domain(nin)), once computed

vars == <<dbAvail, integ, snaps, pc, loc, resp, overlap, nreq, nin, nout, nout2>>

reqVars == <<dbAvail, integ, snaps, pc, loc, resp, overlap, nreq>>
normVars == <<nin, nout, nout2>>

-----------------------------------------------------------------------------
(* Bounds of the model.                                                    *)

\* requests started in one behaviour of Spec
MaxRequests == 2
\* requests started in one behaviour of SeqSpec
MaxSeqRequests == 3
\* items an upstream list carries
MaxItems == 1
\* pieces an input of normalize_domain is concatenated from
MaxPieces == 3

\* the request handlers that may be in flight together
Procs == {"h1", "h2"}

-----------------------------------------------------------------------------
(* Strings as sequences of characters.                                     *)

HTTP == <<"h", "t", "t", "p", ":", "/", "/">>
HTTPS == <<"h", "t", "t", "p", "s", ":", "/", "/">>
SUFFIX == <<".", "m", "y", "s", "h", "o", "p", "i", "f", "y", ".", "c", "o", "m">>

\* the whitespace of str.strip (the only whitespace character of the alphabet)
IsSpace(c) == c = " "

StartsWith(s, pat) ==
    /\ Len(s) >= Len(pat)
    /\ SubSeq(s, 1, Len(pat)) = pat

EndsWith(s, suf) ==
    /\ Len(s) >= Len(suf)
    /\ SubSeq(s, Len(s) - Len(suf) + 1, Len(s)) = suf

RECURSIVE LStrip(_)
LStrip(s) ==
    IF s # <<>> /\ IsSpace(Head(s)) THEN LStrip(Tail(s)) ELSE s

RECURSIVE RStrip(_)
RStrip(s) ==
    IF s # <<>> /\ IsSpace(s[Len(s)]) THEN RStrip(SubSeq(s, 1, Len(s) - 1)) ELSE s

\* str.strip()
Strip(s) == RStrip(LStrip(s))

\* str.replace(pat, ""): leftmost non-overlapping occurrences, one pass
RECURSIVE Remove(_, _)
Remove(s, pat) ==
    IF s = <<>> THEN <<>>
    ELSE IF StartsWith(s, pat) THEN Remove(SubSeq(s, Len(pat) + 1, Len(s)), pat)
    ELSE <<Head(s)>> \o Remove(Tail(s), pat)

\* str.split("/")[0]
RECURSIVE BeforeSlash(_)
BeforeSlash(s) ==
    IF s = <<>> \/ Head(s) = "/" THEN <<>>
    ELSE <<Head(s)>> \o BeforeSlash(Tail(s))

normalize_domain(domain) ==
    LET d1 == Remove(Remove(Strip(domain), HTTP), HTTPS)
        d == BeforeSlash(d1)
    IN  IF EndsWith(d, SUFFIX) THEN d ELSE d \o SUFFIX

-----------------------------------------------------------------------------
(* Values.                                                                 *)

\* Python's None where a string is expected
None == "None"

\* truth value of an Optional[str]: None and "" are false
Truthy(s) == s # None /\ s # ""

\* dict.get(k, default); a dict is a function on its keys, {} the empty one
Get(d, k, default) == IF k \in DOMAIN d THEN d[k] ELSE default

\* truth value of a dict: {} is false
NonEmpty(d) == DOMAIN d # {}

ACME == <<"a", "c", "m", "e">>
SHOP == <<"s", "h", "o", "p">>

\* the domain strings clients send
RawDomains ==
    { ACME,
      HTTPS \o ACME \o SUFFIX \o <<"/", "a", "d", "m", "i", "n">>,
      SHOP \o SUFFIX }

Tokens == {"tok1", "tok2"}
ShopNames == {"Acme Store"}

-----------------------------------------------------------------------------
(* Shopify client.                                                         *)

\* lists an upstream resource may carry: <<11>>, <<11, 12>>, ...
UpstreamLists == { [i \in 1..n |-> 10 + i] : n \in 1..MaxItems }

\* what requests.get does: a 200 with a JSON body, another status, or it raises
Ok(json) == [kind |-> "ok", json |-> json]
HttpError == [kind |-> "status", text |-> "HTTP 500: Internal Server Error"]
Raised == [kind |-> "raise", text |-> "Read timed out. (read timeout=12)"]

ShopReplies ==
    {HttpError, Raised, Ok([errors |-> "x"])}
        \cup { Ok([shop |-> [name |-> n]]) : n \in ShopNames }

\* (for a resource the failure is an HTTP error: the summary only tests the
\* error string for truth, and both failures of shopify_get occur in connect)
ResourceReplies(key) ==
    {HttpError}
        \cup { Ok([k \in {key} |-> l]) : l \in UpstreamLists }

\* (data, err): data is <<json>> or <<>> for None
shopify_get(reply) ==
    IF reply.kind = "ok" THEN [data |-> <<reply.json>>, err |-> None]
    ELSE [data |-> <<>>, err |-> reply.text]

-----------------------------------------------------------------------------
(* Document store.                                                         *)

\* str(_id)
IdStr(id) == <<"oid", id>>

\* collection.find({"domain": d}), as a list
Find(coll, d) == SelectSeq(coll, LAMBDA r : r.domain = d)

\* find_one with the filter left out: the first document, whatever its domain
FindOneIgnoringDomain(coll, d) == IF coll = <<>> THEN <<>> ELSE <<coll[1]>>

\* collection.find_one({"domain": d}): <<doc>>, or <<>> for None
FindOne(coll, d) ==
    LET l == Find(coll, d) IN IF l = <<>> THEN <<>> ELSE <<l[1]>>

\* $set of a dump that leaves None fields out (model_dump(exclude_none=True))
SetFieldsExcludingNone(doc, fields) ==
    [f \in DOMAIN doc |->
        IF f \in DOMAIN fields /\ fields[f] # None THEN fields[f] ELSE doc[f]]

\* {"$set": fields} applied to one document
SetFields(doc, fields) ==
    [f \in DOMAIN doc |-> IF f \in DOMAIN fields THEN fields[f] ELSE doc[f]]

\* the first of the matching positions, 0 when none matches
FirstOf(matching) ==
    IF matching = {} THEN 0
    ELSE CHOOSE i \in matching : \A j \in matching : i <= j

UpdateAt(coll, i, fields) ==
    [j \in 1..Len(coll) |-> IF j = i THEN SetFields(coll[j], fields) ELSE coll[j]]

\* update_one whose filter matches no document
UpdateOneMatchingNone(coll, id, fields) == coll

\* collection.update_one({"_id": id}, {"$set": fields})
UpdateOneById(coll, id, fields) ==
    UpdateAt(coll, FirstOf({ i \in 1..Len(coll) : coll[i].id = id }), fields)

\* collection.update_one({"domain": d}, {"$set": fields})
UpdateOneByDomain(coll, d, fields) ==
    UpdateAt(coll, FirstOf({ i \in 1..Len(coll) : coll[i].domain = d }), fields)

\* database.create_document: the collection after the insert and the id it
\* returns; without a database nothing is saved and an identifier is still
\* returned
create_document(coll, avail, doc) ==
    IF avail
    THEN LET id == Len(coll) + 1
         IN  [coll |-> Append(coll, [f \in DOMAIN doc \cup {"id"} |->
                                        IF f = "id" THEN id ELSE doc[f]]),
              id |-> IdStr(id)]
    ELSE [coll |-> coll, id |-> IdStr(0)]

\* ShopifyIntegration(domain=..., access_token=...).model_dump()
ShopifyIntegration(domain, access_token) ==
    [domain |-> domain, access_token |-> access_token,
     store_name |-> None, scopes |-> None]

\* DataSnapshot(domain=..., data=...).model_dump()
DataSnapshot(domain, data) == [domain |-> domain, data |-> data]

-----------------------------------------------------------------------------
(* Summary payload.                                                        *)

\* the literals of the demo payload, each item named by its "id"
DemoProducts == <<1, 2>>
DemoOrders == <<101, 102>>
DemoCustomers == <<201, 202>>

\* truth value of the data half of shopify_get's result
HasData(data) == data # <<>> /\ NonEmpty(data[1])

\* if p_err or o_err or c_err
DemoRuleAnyFailed(p_err, o_err, c_err) == Truthy(p_err) \/ Truthy(o_err) \/ Truthy(c_err)

\* if p_err and o_err and c_err
DemoRule(p_err, o_err, c_err) == Truthy(p_err) /\ Truthy(o_err) /\ Truthy(c_err)

\* x.get(key, []) if x else []
ListOf(data, key) == IF HasData(data) THEN Get(data[1], key, <<>>) ELSE <<>>

\* len(x.get(key, [])) if x else 0
CountOf(data, key) == IF HasData(data) THEN Len(Get(data[1], key, <<>>)) ELSE 0

\* the summary dict with the live lists kept only when all three fetches succeeded
SummarizeAllOrNothing(p, o, c) ==
    LET demo == DemoRule(p.err, o.err, c.err)
        live == ~Truthy(p.err) /\ ~Truthy(o.err) /\ ~Truthy(c.err)
        products == IF demo THEN <<[products |-> DemoProducts]>>
                    ELSE IF live THEN p.data ELSE <<>>
        orders == IF demo THEN <<[orders |-> DemoOrders]>>
                  ELSE IF live THEN o.data ELSE <<>>
        customers == IF demo THEN <<[customers |-> DemoCustomers]>>
                     ELSE IF live THEN c.data ELSE <<>>
    IN  [demo |-> demo,
         counts |-> [products |-> CountOf(products, "products"),
                     orders |-> CountOf(orders, "orders"),
                     customers |-> CountOf(customers, "customers")],
         products |-> ListOf(products, "products"),
         orders |-> ListOf(orders, "orders"),
         customers |-> ListOf(customers, "customers")]

\* the summary dict built from the three results of shopify_get
Summarize(p, o, c) ==
    LET demo == DemoRule(p.err, o.err, c.err)
        products == IF demo THEN <<[products |-> DemoProducts]>> ELSE p.data
        orders == IF demo THEN <<[orders |-> DemoOrders]>> ELSE o.data
        customers == IF demo THEN <<[customers |-> DemoCustomers]>> ELSE c.data
    IN  [demo |-> demo,
         counts |-> [products |-> CountOf(products, "products"),
                     orders |-> CountOf(orders, "orders"),
                     customers |-> CountOf(customers, "customers")],
         products |-> ListOf(products, "products"),
         orders |-> ListOf(orders, "orders"),
         customers |-> ListOf(customers, "customers")]

-----------------------------------------------------------------------------
(* HTTP responses.                                                         *)

NoResponse == [status |-> 0, body |-> None]

NotFound ==
    [status |-> 404,
     body |-> [detail |-> "Integration not found. Connect your store first."]]

\* an exception that leaves the handler
ServerError == [status |-> 500, body |-> "Internal Server Error"]

ConnectResponse(id, domain, verified, shop_name) ==
    [status |-> 200,
     body |-> [ok |-> TRUE, id |-> id, domain |-> domain,
               verified |-> verified, store_name |-> shop_name]]

\* the cache write outside any try: its exception leaves the handler
AfterCacheWriteUnguarded(summary, raised) ==
    IF raised THEN ServerError ELSE [status |-> 200, body |-> summary]

\* try: <cache write> except Exception: pass; return summary
AfterCacheWrite(summary, raised) == [status |-> 200, body |-> summary]

-----------------------------------------------------------------------------
(* Request handlers.                                                       *)

NoLocals ==
    [op |-> "none", domain |-> <<>>, token |-> None, existing |-> <<>>,
     inserted_id |-> <<>>, results |-> <<>>, cacheFailed |-> FALSE]

InFlight(q) == pc[q] \notin {"idle", "done"}

\* the connect calls in flight on domain d, other than p's
ConnectsOn(p, d) ==
    { q \in Procs \ {p} : InFlight(q) /\ loc[q].op = "connect" /\ loc[q].domain = d }

Init ==
    /\ dbAvail \in BOOLEAN
    /\ integ = <<>>
    /\ snaps = <<>>
    /\ pc = [p \in Procs |-> "idle"]
    /\ loc = [p \in Procs |-> NoLocals]
    /\ resp = [p \in Procs |-> NoResponse]
    /\ overlap = [p \in Procs |-> FALSE]
    /\ nreq = 0
    /\ nin = <<>>
    /\ nout = <<>>
    /\ nout2 = <<>>

\* connect_shopify, lines 82-85: normalize, look the integration up
ConnectFind(p, raw, tok) ==
    /\ pc[p] = "idle"
    /\ LET domain == normalize_domain(raw)
           existing == IF dbAvail THEN Find(integ, domain) ELSE <<>>
       IN  /\ loc' = [loc EXCEPT ![p] = [NoLocals EXCEPT !.op = "connect",
                                             !.domain = domain,
                                             !.token = tok,
                                             !.existing = existing]]
           /\ overlap' = [q \in Procs |->
                            IF q = p THEN ConnectsOn(p, domain) # {}
                            ELSE IF q \in ConnectsOn(p, domain) THEN TRUE
                            ELSE overlap[q]]
    /\ pc' = [pc EXCEPT ![p] = "c_save"]
    /\ nreq' = nreq + 1
    /\ UNCHANGED <<dbAvail, integ, snaps, resp, normVars>>

\* connect that inserts without looking at what it found
ConnectSaveInsertOnly(p) ==
    /\ pc[p] = "c_save"
    /\ LET doc == ShopifyIntegration(loc[p].domain, loc[p].token)
           created == create_document(integ, dbAvail, doc)
       IN  /\ integ' = created.coll
           /\ loc' = [loc EXCEPT ![p].inserted_id = created.id]
    /\ pc' = [pc EXCEPT ![p] = "c_verify"]
    /\ UNCHANGED <<dbAvail, snaps, resp, overlap, nreq, normVars>>

\* connect_shopify, lines 86-90: update in place, or insert
ConnectSave(p) ==
    /\ pc[p] = "c_save"
    /\ LET doc == ShopifyIntegration(loc[p].domain, loc[p].token)
           existing == loc[p].existing
       IN  IF existing # <<>>
           THEN /\ integ' = UpdateOneById(integ, existing[1].id, doc)
                /\ loc' = [loc EXCEPT ![p].inserted_id = IdStr(existing[1].id)]
           ELSE LET created == create_document(integ, dbAvail, doc)
                IN  /\ integ' = created.coll
                    /\ loc' = [loc EXCEPT ![p].inserted_id = created.id]
    /\ pc' = [pc EXCEPT ![p] = "c_verify"]
    /\ UNCHANGED <<dbAvail, snaps, resp, overlap, nreq, normVars>>

\* connect_shopify, lines 93-99: verify against shop.json, save the shop name
ConnectVerify(p, reply) ==
    /\ pc[p] = "c_verify"
    /\ LET got == shopify_get(reply)
           verified == ~Truthy(got.err)
           shop_name == IF HasData(got.data)
                        THEN Get(Get(got.data[1], "shop", <<>>), "name", None)
                        ELSE None
       IN  IF Truthy(shop_name)
           THEN IF dbAvail
                THEN /\ integ' = UpdateOneByDomain(integ, loc[p].domain,
                                                   [store_name |-> shop_name])
                     /\ resp' = [resp EXCEPT ![p] =
                                    ConnectResponse(loc[p].inserted_id, loc[p].domain,
                                                    verified, shop_name)]
                \* db is None: db["shopifyintegration"] raises TypeError
                ELSE /\ integ' = integ
                     /\ resp' = [resp EXCEPT ![p] = ServerError]
           ELSE /\ integ' = integ
                /\ resp' = [resp EXCEPT ![p] =
                               ConnectResponse(loc[p].inserted_id, loc[p].domain,
                                               verified, shop_name)]
    /\ pc' = [pc EXCEPT ![p] = "done"]
    /\ UNCHANGED <<dbAvail, snaps, loc, overlap, nreq, normVars>>

\* shopify_summary, lines 104-109: normalize, look the integration up
SummaryLookup(p, raw) ==
    /\ pc[p] = "idle"
    /\ LET domain == normalize_domain(raw)
           found == IF dbAvail THEN FindOne(integ, domain) ELSE <<>>
       IN  IF found = <<>>
           THEN /\ loc' = [loc EXCEPT ![p] = [NoLocals EXCEPT !.op = "summary",
                                                  !.domain = domain]]
                /\ resp' = [resp EXCEPT ![p] = NotFound]
                /\ pc' = [pc EXCEPT ![p] = "done"]
           ELSE /\ loc' = [loc EXCEPT ![p] = [NoLocals EXCEPT !.op = "summary",
                                                  !.domain = domain,
                                                  !.token = Get(found[1], "access_token", None)]]
                /\ resp' = resp
                /\ pc' = [pc EXCEPT ![p] = "s_fetch"]
    /\ nreq' = nreq + 1
    /\ UNCHANGED <<dbAvail, integ, snaps, overlap, normVars>>

\* shopify_summary, lines 111-147: the three fetches, the summary, and the
\* snapshot lookup that opens the cache write (raises when the store fails)
SummaryFetch(p, rp, ro, rc, fails) ==
    /\ pc[p] = "s_fetch"
    /\ LET results == <<shopify_get(rp), shopify_get(ro), shopify_get(rc)>>
           summary == Summarize(results[1], results[2], results[3])
       IN  IF fails
           THEN /\ loc' = [loc EXCEPT ![p].results = results,
                                      ![p].cacheFailed = TRUE]
                /\ resp' = [resp EXCEPT ![p] = AfterCacheWrite(summary, TRUE)]
                /\ pc' = [pc EXCEPT ![p] = "done"]
           ELSE /\ loc' = [loc EXCEPT ![p].results = results,
                                      ![p].existing = FindOne(snaps, loc[p].domain)]
                /\ resp' = resp
                /\ pc' = [pc EXCEPT ![p] = "s_cache"]
    /\ UNCHANGED <<dbAvail, integ, snaps, overlap, nreq, normVars>>

\* shopify_summary, lines 148-155: update the snapshot in place, or insert it
SummaryCache(p, fails) ==
    /\ pc[p] = "s_cache"
    /\ LET results == loc[p].results
           summary == Summarize(results[1], results[2], results[3])
           snap == DataSnapshot(loc[p].domain, summary)
           existing == loc[p].existing
       IN  /\ snaps' = IF fails THEN snaps
                       ELSE IF existing # <<>>
                       THEN UpdateOneById(snaps, existing[1].id, snap)
                       ELSE create_document(snaps, dbAvail, snap).coll
           /\ loc' = [loc EXCEPT ![p].cacheFailed = fails]
           /\ resp' = [resp EXCEPT ![p] = AfterCacheWrite(summary, fails)]
    /\ pc' = [pc EXCEPT ![p] = "done"]
    /\ UNCHANGED <<dbAvail, integ, overlap, nreq, normVars>>

\* the response has been sent; the handler takes the next request
Return(p) ==
    /\ pc[p] = "done"
    /\ pc' = [pc EXCEPT ![p] = "idle"]
    /\ loc' = [loc EXCEPT ![p] = NoLocals]
    /\ resp' = [resp EXCEPT ![p] = NoResponse]
    /\ overlap' = [overlap EXCEPT ![p] = FALSE]
    /\ UNCHANGED <<dbAvail, integ, snaps, nreq, normVars>>

\* normalize_domain applied to the input
Normalize1 ==
    /\ nout = <<>>
    /\ nout' = <<normalize_domain(nin)>>
    /\ UNCHANGED <<reqVars, nin, nout2>>

\* normalize_domain applied to its own output
Normalize2 ==
    /\ nout # <<>>
    /\ nout2 = <<>>
    /\ nout2' = <<normalize_domain(nout[1])>>
    /\ UNCHANGED <<reqVars, nin, nout>>

-----------------------------------------------------------------------------
(* Specifications.                                                         *)

\* Spec: the handlers of concurrent requests interleave between their store
\* operations.
Next ==
    \E p \in Procs :
        \/ /\ nreq < MaxRequests
           /\ \E raw \in RawDomains, tok \in Tokens : ConnectFind(p, raw, tok)
        \/ ConnectSave(p)
        \/ \E reply \in ShopReplies : ConnectVerify(p, reply)
        \/ /\ nreq < MaxRequests
           /\ \E raw \in RawDomains : SummaryLookup(p, raw)
        \/ \E rp \in ResourceReplies("products"), ro \in ResourceReplies("orders"),
              rc \in ResourceReplies("customers"), fails \in BOOLEAN :
                SummaryFetch(p, rp, ro, rc, fails)
        \/ \E fails \in BOOLEAN : SummaryCache(p, fails)
        \/ Return(p)

Spec == Init /\ [][Next]_vars

\* SeqSpec: requests do not overlap; one starts when no handler is busy.
Quiet == \A q \in Procs : pc[q] = "idle"

SeqNext ==
    \E p \in Procs :
        \/ /\ nreq < MaxSeqRequests
           /\ Quiet
           /\ \E raw \in RawDomains, tok \in Tokens : ConnectFind(p, raw, tok)
        \/ ConnectSave(p)
        \/ \E reply \in ShopReplies : ConnectVerify(p, reply)
        \/ /\ nreq < MaxSeqRequests
           /\ Quiet
           /\ \E raw \in RawDomains : SummaryLookup(p, raw)
        \/ \E rp \in ResourceReplies("products"), ro \in ResourceReplies("orders"),
              rc \in ResourceReplies("customers"), fails \in BOOLEAN :
                SummaryFetch(p, rp, ro, rc, fails)
        \/ \E fails \in BOOLEAN : SummaryCache(p, fails)
        \/ Return(p)

SeqSpec == Init /\ [][SeqNext]_vars

\* NormSpec: normalize_domain applied twice to an input put together from
\* up to MaxPieces pieces.
Pieces == { <<" ">>, <<"/">>, <<"a">>, <<"h", "t">>, <<"t", "p", ":", "/", "/">>,
            HTTP, HTTPS, SUFFIX }

RECURSIVE Concats(_)
Concats(n) ==
    IF n = 0 THEN {<<>>}
    ELSE Concats(n - 1) \cup { s \o x : s \in Concats(n - 1), x \in Pieces }

NormInit ==
    /\ dbAvail = FALSE
    /\ integ = <<>>
    /\ snaps = <<>>
    /\ pc = [p \in Procs |-> "idle"]
    /\ loc = [p \in Procs |-> NoLocals]
    /\ resp = [p \in Procs |-> NoResponse]
    /\ overlap = [p \in Procs |-> FALSE]
    /\ nreq = 0
    /\ nin \in Concats(MaxPieces)
    /\ nout = <<>>
    /\ nout2 = <<>>

NormNext == Normalize1 \/ Normalize2

NormSpec == NormInit /\ [][NormNext]_vars

-----------------------------------------------------------------------------
(* Properties.                                                             *)

ConnectDone(p) == pc[p] = "done" /\ loc[p].op = "connect"
SummaryDone(p) == pc[p] = "done" /\ loc[p].op = "summary"

\* the documents of a collection stored under domain d
Stored(coll, d) == { i \in 1..Len(coll) : coll[i].domain = d }

\* C1: in every reachable state, under any interleaving of concurrently
\* handled connect requests, the shopifyintegration collection holds at most
\* one record per normalized domain.
C1_AtMostOneRecordPerDomain ==
    \A i, j \in 1..Len(integ) : integ[i].domain = integ[j].domain => i = j

\* C2: after two non-overlapping connect calls with the same normalized domain
\* and different tokens on an available database, exactly one integration
\* record exists for that domain, it stores the token of the second call, and
\* the second call returns the id of the record the first one created.
C2_ConnectIdempotentOnDomain ==
    \A p \in Procs :
        (ConnectDone(p) /\ dbAvail) =>
            /\ resp[p].status = 200
            /\ Cardinality(Stored(integ, loc[p].domain)) = 1
            /\ \A i \in Stored(integ, loc[p].domain) :
                /\ integ[i].access_token = loc[p].token
                /\ loc[p].existing # <<>> => resp[p].body.id = IdStr(integ[i].id)

\* a second connect has replaced the token the first one stored
C2_Witness ==
    \E p \in Procs :
        /\ ConnectDone(p) /\ dbAvail
        /\ loc[p].existing # <<>>
        /\ loc[p].existing[1].access_token # loc[p].token
        /\ \E i \in Stored(integ, loc[p].domain) :
            /\ integ[i].access_token = loc[p].token
            /\ resp[p].body.id = IdStr(integ[i].id)

\* a fetch returned an error
Failed(result) == result.err # None

AllFailed(results) == \A i \in 1..3 : Failed(results[i])

HasRecord(d) == \E i \in 1..Len(integ) : integ[i].domain = d

\* the step of handler p that looks the integration up
LooksUp(p) == pc[p] = "idle" /\ loc'[p].op = "summary"

\* C4: a summary request whose normalized domain has no integration record
\* fails with the 404 "Integration not found. Connect your store first.",
\* issues no upstream fetch and writes no snapshot; one whose domain has a
\* record never fails with that error.
C4_NotFoundIffNoRecord ==
    /\ [][\A p \in Procs : LooksUp(p) =>
            IF HasRecord(loc'[p].domain)
            THEN pc'[p] = "s_fetch"
            ELSE /\ pc'[p] = "done"
                 /\ resp'[p].status = 404
                 /\ resp'[p].body.detail =
                        "Integration not found. Connect your store first."
                 /\ loc'[p].results = <<>>
                 /\ snaps' = snaps]_vars
    /\ [](\A p \in Procs :
            (pc[p] \in {"s_fetch", "s_cache"} \/ (SummaryDone(p) /\ loc[p].results # <<>>))
                => resp[p].status # 404)
    /\ [](\A p \in Procs :
            (SummaryDone(p) /\ resp[p].status = 404) => loc[p].results = <<>>)

\* a 404 for one domain while another domain has its record
C4_Witness ==
    \E p \in Procs :
        /\ SummaryDone(p)
        /\ resp[p].status = 404
        /\ integ # <<>>
        /\ ~HasRecord(loc[p].domain)

Resources == <<"products", "orders", "customers">>

\* the list a successful fetch brought back under its resource key
Returned(result, key) ==
    IF result.data # <<>> /\ key \in DOMAIN result.data[1]
    THEN result.data[1][key]
    ELSE <<>>

\* C5: in a summary response with demo=false each resource stands alone: a
\* failed fetch gives an empty list and count 0, a successful one gives the
\* list returned upstream, and each count is the length of its list.
C5_ResourcesIndependent ==
    \A p \in Procs :
        (SummaryDone(p) /\ resp[p].status = 200 /\ ~resp[p].body.demo) =>
            \A i \in 1..3 :
                LET key == Resources[i]
                    result == loc[p].results[i]
                IN  /\ Failed(result) =>
                        /\ resp[p].body[key] = <<>>
                        /\ resp[p].body.counts[key] = 0
                    /\ ~Failed(result) => resp[p].body[key] = Returned(result, key)
                    /\ resp[p].body.counts[key] = Len(resp[p].body[key])

\* only the products fetch succeeded
C5_Witness ==
    \E p \in Procs :
        /\ SummaryDone(p) /\ resp[p].status = 200 /\ ~resp[p].body.demo
        /\ ~Failed(loc[p].results[1])
        /\ Failed(loc[p].results[2]) /\ Failed(loc[p].results[3])
        /\ resp[p].body.counts.products = Len(Returned(loc[p].results[1], "products"))
        /\ resp[p].body.counts.products > 0
        /\ resp[p].body.orders = <<>> /\ resp[p].body.customers = <<>>

\* C6: without a database, connect never produces an error response: for
\* every outcome of the shop.json call it returns ok=true with an identifier.
C6_ConnectWithoutDatabase ==
    \A p \in Procs :
        (ConnectDone(p) /\ ~dbAvail) =>
            /\ resp[p].status = 200
            /\ resp[p].body.ok

\* C7: once a summary request has passed the integration lookup, a failure of
\* any step of the snapshot write is swallowed: the response is the summary,
\* with status 200, as when the write succeeds.
C7_CacheWriteFailureSwallowed ==
    \A p \in Procs :
        (SummaryDone(p) /\ loc[p].results # <<>>) =>
            /\ resp[p].status = 200
            /\ resp[p].body = Summarize(loc[p].results[1], loc[p].results[2],
                                        loc[p].results[3])

\* the snapshot write failed and the summary was returned all the same
C7_Witness ==
    \E p \in Procs :
        /\ SummaryDone(p) /\ loc[p].results # <<>>
        /\ loc[p].cacheFailed
        /\ resp[p].status = 200
        /\ Stored(snaps, loc[p].domain) = {}

\* C8: after non-overlapping successful summary requests for a domain on a
\* working store, exactly one datasnapshot record exists for the domain and
\* its data is the payload of the most recent request.
C8_OneSnapshotHoldingLatest ==
    \A p \in Procs :
        (SummaryDone(p) /\ resp[p].status = 200 /\ ~loc[p].cacheFailed) =>
            /\ Cardinality(Stored(snaps, loc[p].domain)) = 1
            /\ \A i \in Stored(snaps, loc[p].domain) : snaps[i].data = resp[p].body

\* a later summary has replaced a demo snapshot by a different payload
C8_Witness ==
    \E p \in Procs :
        /\ SummaryDone(p) /\ resp[p].status = 200 /\ ~loc[p].cacheFailed
        /\ loc[p].existing # <<>>
        /\ loc[p].existing[1].data.demo
        /\ ~resp[p].body.demo
        /\ \E i \in Stored(snaps, loc[p].domain) : snaps[i].data = resp[p].body

\* C9: normalize_domain is idempotent on every input string, and every
\* output ends in ".myshopify.com".
C9_NormalizeIdempotent ==
    /\ nout # <<>> => EndsWith(nout[1], SUFFIX)
    /\ nout2 # <<>> => nout2 = nout

\* the record whose id the connect call of p returned
ReturnedRecord(p) == { i \in 1..Len(integ) : IdStr(integ[i].id) = resp[p].body.id }

\* the stored store_name is the one this call's verification returned
StoredNameMatches(p) ==
    /\ ReturnedRecord(p) # {}
    /\ \A i \in ReturnedRecord(p) :
        /\ integ[i].store_name = resp[p].body.store_name
        /\ integ[i].scopes = None

\* the step that completes a connect call on an available database
Completes(p) ==
    /\ pc[p] = "c_verify" /\ pc'[p] = "done"
    /\ dbAvail

\* C10 as stated: after any completed connect call on an available database
\* the stored record's store_name is the shop name that call's verification
\* returned, null when it failed or returned none.  (Asked only where the
\* domain has a single record, so that a violation does not rest on the
\* duplicate records of C1.)
C10_StoreNameFollowsEveryCall ==
    [][\A p \in Procs :
        (Completes(p) /\ Cardinality(Stored(integ, loc[p].domain)) = 1)
            => StoredNameMatches(p)']_vars

\* C10 amended: the same, for a connect call that no other connect call on
\* the same domain overlaps.
C10_StoreNameFollowsCallAlone ==
    [][\A p \in Procs : (Completes(p) /\ ~overlap[p]) => StoredNameMatches(p)']_vars

\* a store name saved by an earlier connect is gone after a later one whose
\* verification failed
C10_Witness ==
    \E p \in Procs :
        /\ ConnectDone(p) /\ dbAvail /\ ~overlap[p]
        /\ loc[p].existing # <<>>
        /\ loc[p].existing[1].store_name # None
        /\ resp[p].body.store_name = None
        /\ \A i \in ReturnedRecord(p) : integ[i].store_name = None
        /\ ReturnedRecord(p) # {}

====
